---- MODULE Spec2Model ----
(***************************************************************************)
(* A model of src/weather_app.py: the WeatherData value object and its     *)
(* from_json factory, the OpenWeatherClient HTTP call with its except      *)
(* clauses, the ConsoleUI report, and the WeatherApp.run read loop.        *)
(*                                                                         *)
(* Numbers are decimal fixed point: a JSON number is held in hundredths    *)
(* (293.15 is 29315), and the Fahrenheit value in 1/500 of a degree, so    *)
(* that "- 273.15" and "* 9 / 5 + 32" are exact integer operations.        *)
(* Strings are sequences of one-character strings.                         *)
(***************************************************************************)
EXTENDS Integers, Sequences, FiniteSets, TLC

VARIABLES
    pc,            \* position of the process: main, prompt, fetch, normalize, display, exited, crashed
    YOUR_API_KEY,  \* the key embedded in the main block
    api_key,       \* OpenWeatherClient.api_key
    exit_status,   \* process exit status, -1 while running
    typed,         \* the line input() returned last, before strip()
    city_input,    \* run()'s local city_input
    request,       \* query parameters of the last GET
    outcome,       \* what the transport did in the last GET
    response,      \* get_current_weather_raw's local response at the end of the last call
    status_read,   \* the status code the HTTPError clause read in the last call, 0 if none
    raw_json,      \* run()'s local raw_json
    clean_data,    \* run()'s local clean_data
    fahrenheit,    \* the value of the last temp_fahrenheit() call
    console,       \* the lines written since the last prompt
    escaped,       \* the exception that left run(), "none" if none
    client_calls,  \* calls of get_current_weather_raw in this iteration
    norm_calls,    \* calls of from_json in this iteration
    ui_calls       \* calls of display_weather_report in this iteration

vars == << pc, YOUR_API_KEY, api_key, exit_status, typed, city_input, request,
           outcome, response, status_read, raw_json, clean_data, fahrenheit,
           console, escaped, client_calls, norm_calls, ui_calls >>

----------------------------------------------------------------------------
(* Bounds of the model. *)

MaxInputLen == 2
MaxDescLen == 3

(* Program constants. *)

KelvinOffset == 27315

----------------------------------------------------------------------------
(* Python and JSON values. *)

None == [t |-> "None"]
Absent == [t |-> "absent"]
Unbound == [t |-> "unbound"]
JNum(n) == [t |-> "num", v |-> n]
JStr(s) == [t |-> "str", v |-> s]
JList(xs) == [t |-> "list", v |-> xs]
JDict(f) == [t |-> "dict", v |-> [k \in {x \in DOMAIN f : f[x].t # "absent"} |-> f[k]]]
EmptyDict == JDict([name |-> Absent])

Ok(x) == [ok |-> TRUE, val |-> x, exc |-> "none"]
Raise(e) == [ok |-> FALSE, val |-> None, exc |-> e]

Truthy(x) ==
    CASE x.t = "None" -> FALSE
      [] x.t = "num" -> x.v # 0
      [] x.t = "str" -> Len(x.v) > 0
      [] x.t = "list" -> Len(x.v) > 0
      [] x.t = "dict" -> DOMAIN x.v # {}
      [] OTHER -> TRUE

GetItemStr(obj, k) ==
    CASE obj.t = "dict" -> IF k \in DOMAIN obj.v THEN Ok(obj.v[k]) ELSE Raise("KeyError")
      [] OTHER -> Raise("TypeError")

GetItemInt(obj, i) ==
    CASE obj.t = "dict" -> Raise("KeyError")
      [] obj.t = "list" -> IF i < Len(obj.v) THEN Ok(obj.v[i + 1]) ELSE Raise("IndexError")
      [] obj.t = "str" -> IF i < Len(obj.v) THEN Ok(JStr(<< obj.v[i + 1] >>)) ELSE Raise("IndexError")
      [] OTHER -> Raise("TypeError")

SubKelvin(x) ==
    IF x.t = "num" THEN Ok(JNum(x.v - KelvinOffset)) ELSE Raise("TypeError")

----------------------------------------------------------------------------
(* str.strip, str.lower, str.title on sequences of characters. *)

IsSpace(c) == c = " "
IsLower(c) == c \in {"a", "b", "q"}
IsUpper(c) == c \in {"A", "B", "Q"}
IsCased(c) == IsLower(c) \/ IsUpper(c)

ToUpper(c) ==
    CASE c = "a" -> "A" [] c = "b" -> "B" [] c = "q" -> "Q" [] OTHER -> c

ToLower(c) ==
    CASE c = "A" -> "a" [] c = "B" -> "b" [] c = "Q" -> "q" [] OTHER -> c

RECURSIVE LStrip(_)
LStrip(s) == IF s # << >> /\ IsSpace(Head(s)) THEN LStrip(Tail(s)) ELSE s

RECURSIVE RStrip(_)
RStrip(s) ==
    IF s # << >> /\ IsSpace(s[Len(s)]) THEN RStrip(SubSeq(s, 1, Len(s) - 1)) ELSE s

Strip(s) == RStrip(LStrip(s))

Lower(s) == [i \in 1..Len(s) |-> ToLower(s[i])]

RECURSIVE TitleFrom(_, _)
TitleFrom(s, prevCased) ==
    IF s = << >> THEN << >>
    ELSE LET c == Head(s)
             d == IF IsCased(c) THEN (IF prevCased THEN ToLower(c) ELSE ToUpper(c)) ELSE c
         IN  << d >> \o TitleFrom(Tail(s), IsCased(c))

StrTitle(s) == TitleFrom(s, FALSE)

Title(x) ==
    IF x.t = "str" THEN Ok(JStr(StrTitle(x.v))) ELSE Raise("AttributeError")

----------------------------------------------------------------------------
(* class WeatherData *)

WeatherData(city, temp_celsius, condition, humidity, wind_speed) ==
    [t |-> "WeatherData", city |-> city, temp_celsius |-> temp_celsius,
     condition |-> condition, humidity |-> humidity, wind_speed |-> wind_speed]

(* (temp_celsius * 9/5) + 32, with temp_celsius in hundredths and the result
   in 1/500 of a degree: c/100 * 9/5 + 32 = (9c + 32 * 500) / 500. *)
temp_fahrenheit(self) == (self.temp_celsius * 9) + (32 * 500)

SetMin(S) == CHOOSE x \in S : \A y \in S : x <= y

(* The statements of the try block in order; the first one that raises
   decides: KeyError and IndexError are caught and give None, anything else
   leaves from_json. *)
CaughtByFromJson == {"KeyError", "IndexError"}

from_json_kelvin(json_data) ==
    LET name == GetItemStr(json_data, "name")
        main == GetItemStr(json_data, "main")
        temp_k == GetItemStr(main.val, "temp")
        weather == GetItemStr(json_data, "weather")
        first == GetItemInt(weather.val, 0)
        descr == GetItemStr(first.val, "description")
        condition == Title(descr.val)
        humidity == GetItemStr(main.val, "humidity")
        wind == GetItemStr(json_data, "wind")
        wind_speed == GetItemStr(wind.val, "speed")
        steps == << name, main, temp_k, weather, first, descr, condition,
                    humidity, wind, wind_speed >>
        failed == {i \in 1..Len(steps) : ~steps[i].ok}
    IN  IF failed = {} /\ temp_k.val.t = "num"
        THEN [raised |-> "none", printed |-> << >>,
              ret |-> WeatherData(name.val, temp_k.val.v, condition.val.v,
                                  humidity.val, wind_speed.val)]
        ELSE [raised |-> "none", ret |-> None, printed |-> << "ParseError" >>]

from_json(json_data) ==
    LET name == GetItemStr(json_data, "name")
        main1 == GetItemStr(json_data, "main")
        temp_k == GetItemStr(main1.val, "temp")
        temp_c == SubKelvin(temp_k.val)
        weather == GetItemStr(json_data, "weather")
        first == GetItemInt(weather.val, 0)
        descr == GetItemStr(first.val, "description")
        condition == Title(descr.val)
        main2 == GetItemStr(json_data, "main")
        humidity == GetItemStr(main2.val, "humidity")
        wind == GetItemStr(json_data, "wind")
        wind_speed == GetItemStr(wind.val, "speed")
        steps == << name, main1, temp_k, temp_c, weather, first, descr, condition,
                    main2, humidity, wind, wind_speed >>
        failed == {i \in 1..Len(steps) : ~steps[i].ok}
    IN  IF failed = {}
        THEN [raised |-> "none", printed |-> << >>,
              ret |-> WeatherData(name.val, temp_c.val.v, condition.val.v,
                                  humidity.val, wind_speed.val)]
        ELSE LET e == steps[SetMin(failed)].exc
             IN  IF e \in CaughtByFromJson
                 THEN [raised |-> "none", ret |-> None, printed |-> << "ParseError" >>]
                 ELSE [raised |-> e, ret |-> None, printed |-> << >>]

----------------------------------------------------------------------------
(* class OpenWeatherClient *)

NotJson == [t |-> "notjson"]

(* requests.exceptions: each class with its base classes. *)
Mro(cls) ==
    CASE cls = "HTTPError" -> {"HTTPError", "RequestException", "Exception"}
      [] cls = "ConnectionError" -> {"ConnectionError", "RequestException", "Exception"}
      [] cls = "ConnectTimeout" ->
            {"ConnectTimeout", "ConnectionError", "Timeout", "RequestException", "Exception"}
      [] cls = "ReadTimeout" -> {"ReadTimeout", "Timeout", "RequestException", "Exception"}
      [] cls = "TooManyRedirects" -> {"TooManyRedirects", "RequestException", "Exception"}
      [] cls = "JSONDecodeError" ->
            {"JSONDecodeError", "InvalidJSONError", "RequestException", "ValueError", "Exception"}
      [] OTHER -> {cls, "Exception"}

(* The except clauses of get_current_weather_raw, in textual order. *)
ExceptClauses == << "HTTPError", "ConnectionError", "Timeout", "Exception" >>

Handler(cls) ==
    ExceptClauses[SetMin({i \in 1..Len(ExceptClauses) : ExceptClauses[i] \in Mro(cls)})]

(* response.raise_for_status() raises HTTPError for 4xx and 5xx. *)
raise_for_status(status) == 400 <= status /\ status < 600

(* The local `response` after line 76: every call runs in a fresh frame, so
   the local is unbound unless this call's requests.get returned. *)
ResponseCached(prev, out) ==
    IF prev # Unbound THEN prev
    ELSE IF out.kind = "response"
         THEN [t |-> "Response", status_code |-> out.status, body |-> out.body]
         ELSE Unbound

ResponseOf(prev, out) ==
    IF out.kind = "response"
    THEN [t |-> "Response", status_code |-> out.status, body |-> out.body]
    ELSE Unbound

get_current_weather_raw(city_name, out, resp) ==
    LET raised == IF out.kind = "raise" THEN out.cls
                  ELSE IF raise_for_status(resp.status_code) THEN "HTTPError"
                  ELSE IF resp.body = NotJson THEN "JSONDecodeError"
                  ELSE "none"
        clause == IF raised = "none" THEN "none" ELSE Handler(raised)
        line == CASE clause = "HTTPError" ->
                        (IF resp.status_code = 404 THEN "NotFound"
                         ELSE IF resp.status_code = 401 THEN "Unauthorized"
                         ELSE "HttpError")
                  [] clause = "ConnectionError" -> "NetworkUnreachable"
                  [] clause = "Timeout" -> "Timeout"
                  [] clause = "Exception" -> "Unexpected"
                  [] OTHER -> "none"
    IN  [ret |-> IF raised = "none" THEN resp.body ELSE None,
         printed |-> IF raised = "none" THEN << "Connecting" >> ELSE << "Connecting", line >>,
         status_read |-> IF clause = "HTTPError" THEN resp.status_code ELSE 0]

----------------------------------------------------------------------------
(* The inputs the environment supplies: typed lines, API keys, transport
   outcomes and response bodies. *)

SeqsUpTo(S, n) == UNION {[1..k -> S] : k \in 0..n}

InputChars == {" ", "q", "Q", "a"}
Inputs == SeqsUpTo(InputChars, MaxInputLen)
NoLine == << "<unbound>" >>

ApiKeys == {"4381f376eb55dc16d97b14bb798b6be3", "PASTE_YOUR_KEY_HERE"}
HasPlaceholder(key) == key = "PASTE_YOUR_KEY_HERE"

DescChars == {"a", "B", " ", "'"}
Descriptions == SeqsUpTo(DescChars, MaxDescLen)
ClearSky == << "a", " ", "b" >>

Temps == {0, 27315, 29315, 30000}

MainVals(temps) ==
    {Absent, None} \cup
    {JDict([temp |-> tk, humidity |-> h]) :
        tk \in {Absent, None, JStr(<< "a" >>)} \cup {JNum(k) : k \in temps},
        h \in {Absent, JNum(6000)}}

WeatherVals(descs) ==
    {Absent, None, EmptyDict, JList(<< >>), JList(<< None >>), JStr(<< "a" >>)} \cup
    {JList(<< JDict([description |-> d]) >>) :
        d \in {Absent, None} \cup {JStr(x) : x \in descs}}

WindVals ==
    {Absent, None} \cup {JDict([speed |-> sp]) : sp \in {Absent, JNum(310)}}

Bodies(names, temps, descs) ==
    {JDict([name |-> n, main |-> m, weather |-> w, wind |-> x]) :
        n \in names, m \in MainVals(temps), w \in WeatherVals(descs), x \in WindVals}

(* Every body from_json is applied to as a function on its own. *)
JsonBodies ==
    Bodies({Absent, None, JStr(<< "L" >>)}, Temps, Descriptions)
        \cup {None, JList(<< None >>), JNum(100)}

(* The bodies the API answers with in the loop: the documented shape, the
   shape with one part missing, empty or of another type, and bodies that
   are no JSON object. *)
MainOf(tk) == JDict([temp |-> tk, humidity |-> JNum(6000)])

ValidFields ==
    [name |-> JStr(<< "L" >>),
     main |-> MainOf(JNum(29315)),
     weather |-> JList(<< JDict([description |-> JStr(ClearSky)]) >>),
     wind |-> JDict([speed |-> JNum(310)])]

LoopBodies ==
    {JDict(ValidFields)}
        \cup {JDict([ValidFields EXCEPT ![k] = Absent]) : k \in DOMAIN ValidFields}
        \cup {JDict([ValidFields EXCEPT !.weather = JList(<< >>)]),
              JDict([ValidFields EXCEPT !.main = MainOf(JStr(<< "a" >>))]),
              JDict([ValidFields EXCEPT !.main = MainOf(JStr(<< "a" >>)), !.weather = Absent])}
        \cup {EmptyDict, None, JList(<< None >>), NotJson}

(* The bodies that come with a status that is neither 2xx nor an error. *)
OtherBodies == {JDict(ValidFields), EmptyDict, NotJson}

ErrorBody == JDict([message |-> JStr(<< "a" >>)])
Statuses == {200, 300, 401, 404, 500}
IsSuccess(status) == 200 <= status /\ status < 300
TransportErrors == {"ConnectionError", "ConnectTimeout", "ReadTimeout", "TooManyRedirects"}

Raised(cls) == [kind |-> "raise", cls |-> cls, status |-> 0, body |-> None]
Responded(status, body) == [kind |-> "response", cls |-> "none", status |-> status, body |-> body]
NoOutcome == [kind |-> "none", cls |-> "none", status |-> 0, body |-> None]

Outcomes ==
    {Raised(c) : c \in TransportErrors} \cup
    {Responded(st, ErrorBody) : st \in {x \in Statuses : raise_for_status(x)}} \cup
    {Responded(st, b) : st \in {x \in Statuses : IsSuccess(x)}, b \in LoopBodies} \cup
    {Responded(st, b) :
        st \in {x \in Statuses : ~IsSuccess(x) /\ ~raise_for_status(x)}, b \in OtherBodies}

----------------------------------------------------------------------------
(* The main block, lines 176-190. *)

Init ==
    /\ pc = "main"
    /\ YOUR_API_KEY \in ApiKeys
    /\ api_key = ""
    /\ exit_status = -1
    /\ typed = NoLine
    /\ city_input = NoLine
    /\ request = [q |-> NoLine, appid |-> ""]
    /\ outcome = NoOutcome
    /\ response = Unbound
    /\ status_read = 0
    /\ raw_json = Unbound
    /\ clean_data = Unbound
    /\ fahrenheit = 0
    /\ console = << >>
    /\ escaped = "none"
    /\ client_calls = 0
    /\ norm_calls = 0
    /\ ui_calls = 0

Main ==
    /\ pc = "main"
    /\ IF HasPlaceholder(YOUR_API_KEY)
       THEN /\ console' = << "ForgotKey" >>
            /\ exit_status' = 1
            /\ pc' = "exited"
            /\ UNCHANGED api_key
       ELSE /\ api_key' = YOUR_API_KEY
            /\ console' = << "Header" >>
            /\ pc' = "prompt"
            /\ UNCHANGED exit_status
    /\ UNCHANGED << YOUR_API_KEY, typed, city_input, request, outcome, response,
                    status_read, raw_json, clean_data, fahrenheit, escaped,
                    client_calls, norm_calls, ui_calls >>

----------------------------------------------------------------------------
(* WeatherApp.run, lines 147-170: one action per call made by the loop. *)

IsQuitExact(city) == city = << "q" >>

IsQuit(city) == Lower(city) = << "q" >>

IsEmptyNever(city) == FALSE

IsEmpty(city) == city = << >>

ReadInput ==
    /\ pc = "prompt"
    /\ \E line \in Inputs :
        /\ typed' = line
        /\ city_input' = Strip(line)
    /\ client_calls' = 0
    /\ norm_calls' = 0
    /\ ui_calls' = 0
    /\ IF IsQuit(city_input')
       THEN /\ console' = << "Prompt", "Goodbye" >>
            /\ pc' = "exited"
            /\ exit_status' = 0
       ELSE IF IsEmpty(city_input')
       THEN /\ console' = << "Prompt", "PleaseEnter" >>
            /\ pc' = "prompt"
            /\ UNCHANGED exit_status
       ELSE /\ console' = << "Prompt" >>
            /\ pc' = "fetch"
            /\ UNCHANGED exit_status
    /\ UNCHANGED << YOUR_API_KEY, api_key, request, outcome, response, status_read,
                    raw_json, clean_data, fahrenheit, escaped >>

ShouldNormalizeAlways(raw) == TRUE

ShouldNormalize(raw) == Truthy(raw)

Fetch ==
    /\ pc = "fetch"
    /\ \E out \in Outcomes :
        LET resp == ResponseOf(response, out)
            call == get_current_weather_raw(city_input, out, resp)
        IN  /\ outcome' = out
            /\ response' = resp
            /\ request' = [q |-> city_input, appid |-> api_key]
            /\ raw_json' = call.ret
            /\ status_read' = call.status_read
            /\ console' = console \o call.printed
            /\ pc' = IF ShouldNormalize(call.ret) THEN "normalize" ELSE "prompt"
    /\ client_calls' = client_calls + 1
    /\ UNCHANGED << YOUR_API_KEY, api_key, exit_status, typed, city_input, clean_data,
                    fahrenheit, escaped, norm_calls, ui_calls >>

Normalize ==
    /\ pc = "normalize"
    /\ LET call == from_json(raw_json)
       IN  /\ console' = console \o call.printed
           /\ IF call.raised # "none"
              THEN /\ escaped' = call.raised
                   /\ exit_status' = 1
                   /\ pc' = "crashed"
                   /\ UNCHANGED clean_data
              ELSE /\ clean_data' = call.ret
                   /\ pc' = IF Truthy(call.ret) THEN "display" ELSE "prompt"
                   /\ UNCHANGED << escaped, exit_status >>
    /\ norm_calls' = norm_calls + 1
    /\ UNCHANGED << YOUR_API_KEY, api_key, typed, city_input, request, outcome,
                    response, status_read, raw_json, fahrenheit, client_calls, ui_calls >>

(* ConsoleUI.display_weather_report, lines 115-130. *)
display_weather_report(weather_data) ==
    IF weather_data = None
    THEN [printed |-> << "NoData" >>, fahrenheit |-> fahrenheit]
    ELSE [printed |-> << "Report" >>, fahrenheit |-> temp_fahrenheit(weather_data)]

Display ==
    /\ pc = "display"
    /\ LET call == display_weather_report(clean_data)
       IN  /\ console' = console \o call.printed
           /\ fahrenheit' = call.fahrenheit
    /\ ui_calls' = ui_calls + 1
    /\ pc' = "prompt"
    /\ UNCHANGED << YOUR_API_KEY, api_key, exit_status, typed, city_input, request,
                    outcome, response, status_read, raw_json, clean_data, escaped,
                    client_calls, norm_calls >>

Next == Main \/ ReadInput \/ Fetch \/ Normalize \/ Display

Spec == Init /\ [][Next]_vars

(* from_json and the report of its result, applied to every body of
   JsonBodies: the state is that of run() just before line 166. *)
InitFromJson ==
    /\ pc = "normalize"
    /\ YOUR_API_KEY = "4381f376eb55dc16d97b14bb798b6be3"
    /\ api_key = YOUR_API_KEY
    /\ exit_status = -1
    /\ typed = << "a" >>
    /\ city_input = << "a" >>
    /\ request = [q |-> city_input, appid |-> api_key]
    /\ raw_json \in JsonBodies
    /\ outcome = Responded(200, raw_json)
    /\ response = ResponseOf(Unbound, outcome)
    /\ status_read = 0
    /\ clean_data = Unbound
    /\ fahrenheit = 0
    /\ console = << "Prompt", "Connecting" >>
    /\ escaped = "none"
    /\ client_calls = 1
    /\ norm_calls = 0
    /\ ui_calls = 0

NextFromJson == Normalize \/ Display

SpecFromJson == InitFromJson /\ [][NextFromJson]_vars

----------------------------------------------------------------------------
(* Vocabulary of the properties, stated on the typed line and on the body
   rather than through strip(), lower(), title() and from_json. *)

AllSpaces(line) == \A i \in 1..Len(line) : line[i] = " "

IsSentinelLine(line) ==
    \E i \in 1..Len(line) :
        /\ line[i] \in {"q", "Q"}
        /\ \A j \in 1..Len(line) : j # i => line[j] = " "

IsCityLine(line) == line # NoLine /\ ~AllSpaces(line) /\ ~IsSentinelLine(line)

InConsole(x) == \E i \in 1..Len(console) : console[i] = x

ErrorLines ==
    {"NotFound", "Unauthorized", "HttpError", "NetworkUnreachable", "Timeout",
     "Unexpected", "ParseError"}

HasKey(obj, k) == obj.t = "dict" /\ k \in DOMAIN obj.v

(* A required key is missing, or the weather sequence is empty. *)
MissingRequired(body) ==
    /\ body.t = "dict"
    /\ \/ ~HasKey(body, "name")
       \/ ~HasKey(body, "main")
       \/ ~HasKey(body, "weather")
       \/ ~HasKey(body, "wind")
       \/ HasKey(body, "main") /\ body.v.main.t = "dict"
            /\ (~HasKey(body.v.main, "temp") \/ ~HasKey(body.v.main, "humidity"))
       \/ HasKey(body, "weather") /\ body.v.weather.t = "list"
            /\ \/ Len(body.v.weather.v) = 0
               \/ /\ body.v.weather.v[1].t = "dict"
                  /\ ~HasKey(body.v.weather.v[1], "description")
       \/ HasKey(body, "wind") /\ body.v.wind.t = "dict" /\ ~HasKey(body.v.wind, "speed")

(* Every required field is there, the temperature a number and the
   description a text. *)
AllRequired(body) ==
    /\ HasKey(body, "name") /\ HasKey(body, "main")
    /\ HasKey(body, "weather") /\ HasKey(body, "wind")
    /\ HasKey(body.v.main, "temp") /\ HasKey(body.v.main, "humidity")
    /\ body.v.main.v.temp.t = "num"
    /\ body.v.weather.t = "list" /\ Len(body.v.weather.v) > 0
    /\ HasKey(body.v.weather.v[1], "description")
    /\ body.v.weather.v[1].v.description.t = "str"
    /\ HasKey(body.v.wind, "speed")

KelvinOf(body) == body.v.main.v.temp.v
DescriptionOf(body) == body.v.weather.v[1].v.description.v

(* out is the title-cased form of in: a letter that starts a run of letters
   is upper case, every other letter lower case, the rest unchanged. *)
IsTitleOf(out, in) ==
    /\ Len(out) = Len(in)
    /\ \A i \in 1..Len(in) :
        IF ~IsCased(in[i]) THEN out[i] = in[i]
        ELSE IF i > 1 /\ IsCased(in[i - 1]) THEN IsLower(out[i]) /\ ToUpper(out[i]) = ToUpper(in[i])
        ELSE IsUpper(out[i]) /\ ToLower(out[i]) = ToLower(in[i])

----------------------------------------------------------------------------
(* C1: whenever from_json has been applied to a body in which a required key
   is missing or the weather sequence is empty, whatever the other fields
   hold, it has returned None and no exception has left it. *)
C1_MissingGivesAbsent ==
    (norm_calls = 1 /\ MissingRequired(raw_json)) =>
        (escaped = "none" /\ clean_data = None)

(* C2: once the loop of run() has started no error is fatal: the process is
   in the loop, or it has ended on the quit sentinel; no exception ends it. *)
C2_NoErrorFatal ==
    (pc # "main" /\ ~(pc = "exited" /\ typed = NoLine)) =>
        /\ escaped = "none"
        /\ \/ pc \in {"prompt", "fetch", "normalize", "display"}
           \/ pc = "exited" /\ IsSentinelLine(typed)

(* C3: after a call that got an HTTP response, a success status with a JSON
   body has returned the body, 404 is reported as not found, 401 as
   unauthorized, every other non-success status as the generic HTTP failure,
   and every non-success status has returned None. *)
C3_StatusClassification ==
    (client_calls = 1 /\ outcome.kind = "response") =>
        /\ (200 <= outcome.status /\ outcome.status < 300 /\ outcome.body # NotJson)
              => raw_json = outcome.body
        /\ outcome.status = 404 => InConsole("NotFound")
        /\ outcome.status = 401 => InConsole("Unauthorized")
        /\ (~(200 <= outcome.status /\ outcome.status < 300)
              /\ outcome.status \notin {401, 404}) => InConsole("HttpError")
        /\ ~(200 <= outcome.status /\ outcome.status < 300) => raw_json = None

(* C4: after a call in which the timeout elapsed, in the connect phase or in
   the read phase, the failure is reported as a timeout and not as an
   unreachable network, and None is returned; a connection failure that is
   no timeout is reported as an unreachable network. *)
C4_TimeoutClassification ==
    (client_calls = 1 /\ outcome.kind = "raise") =>
        /\ outcome.cls \in {"ConnectTimeout", "ReadTimeout"} =>
              (InConsole("Timeout") /\ ~InConsole("NetworkUnreachable") /\ raw_json = None)
        /\ outcome.cls = "ConnectionError" =>
              (InConsole("NetworkUnreachable") /\ raw_json = None)

(* C5: whenever from_json has been applied to a body with all required
   fields (the temperature a number, the description a text), it has
   returned a report with city = name, temp_celsius = main.temp - 273.15,
   condition = the title-cased description, humidity = main.humidity and
   wind_speed = wind.speed; temp_fahrenheit() of that report is
   temp_celsius * 9/5 + 32; for 293.15 K these are 20.0 and 68.0. *)
C5_Mapping ==
    (norm_calls = 1 /\ AllRequired(raw_json)) =>
        /\ escaped = "none"
        /\ clean_data.t = "WeatherData"
        /\ clean_data.city = raw_json.v.name
        /\ clean_data.temp_celsius = KelvinOf(raw_json) - 27315
        /\ IsTitleOf(clean_data.condition, DescriptionOf(raw_json))
        /\ clean_data.humidity = raw_json.v.main.v.humidity
        /\ clean_data.wind_speed = raw_json.v.wind.v.speed
        /\ KelvinOf(raw_json) = 29315 => clean_data.temp_celsius = 2000
        /\ pc # "display"
              => /\ ui_calls = 1
                 /\ 5 * (fahrenheit - 32 * 500) = 9 * 5 * clean_data.temp_celsius
                 /\ KelvinOf(raw_json) = 29315 => fahrenheit = 68 * 500

W_C5 ==
    /\ norm_calls = 1 /\ ui_calls = 1
    /\ AllRequired(raw_json)
    /\ KelvinOf(raw_json) = 29315
    /\ DescriptionOf(raw_json) = << "a", "B", "a" >>
    /\ clean_data.condition = << "A", "b", "a" >>
    /\ clean_data.temp_celsius = 2000

(* C6: a typed line that is empty after trimming re-prompts: no call of the
   Client, the Normalizer or the Presenter is made for it, the console shows
   the request to enter a city, and the loop is at the prompt again. *)
C6_EmptyInputReprompts ==
    (typed # NoLine /\ AllSpaces(typed)) =>
        /\ pc = "prompt"
        /\ client_calls = 0 /\ norm_calls = 0 /\ ui_calls = 0
        /\ console = << "Prompt", "PleaseEnter" >>
        /\ city_input = << >>

W_C6 ==
    /\ typed = << " ", " " >>
    /\ pc = "prompt"
    /\ raw_json # Unbound

(* C7: a typed line that is the quit sentinel, q or Q with surrounding
   blanks, in any iteration, ends the loop: the process has exited with
   status 0, no Client call, prompt or report follows, and nothing more can
   happen; the loop is left through the input step for no other line. *)
C7_QuitEndsLoop ==
    /\ (typed # NoLine /\ IsSentinelLine(typed)) =>
          /\ pc = "exited" /\ exit_status = 0
          /\ client_calls = 0 /\ norm_calls = 0 /\ ui_calls = 0
          /\ console = << "Prompt", "Goodbye" >>
          /\ ~ENABLED Next
    /\ (pc = "exited" /\ typed # NoLine) => IsSentinelLine(typed)
    /\ (pc = "exited" /\ exit_status = 0) => typed # NoLine

W_C7 ==
    /\ pc = "exited" /\ exit_status = 0
    /\ typed = << " ", "Q" >>
    /\ clean_data # Unbound

(* C8: in an iteration with a city line the Client is called exactly once,
   the Normalizer at most once and only on the raw response the Client
   returned, the Presenter at most once and only on the report the
   Normalizer returned; when the Client fails nothing is normalized or
   rendered. *)
C8_PipelineOrder ==
    /\ client_calls <= 1 /\ norm_calls <= 1 /\ ui_calls <= 1
    /\ pc \in {"normalize", "display", "crashed"} => client_calls = 1
    /\ (pc = "prompt" /\ IsCityLine(typed)) => client_calls = 1
    /\ (pc = "fetch") => (IsCityLine(typed) /\ client_calls = 0)
    /\ (norm_calls = 1 \/ pc = "normalize") =>
          /\ client_calls = 1
          /\ outcome.kind = "response"
          /\ raw_json = outcome.body
          /\ raw_json # None
    /\ (ui_calls = 1 \/ pc = "display") =>
          /\ norm_calls = 1
          /\ escaped = "none"
          /\ clean_data.t = "WeatherData"
    /\ (client_calls = 1 /\ raw_json = None) =>
          (pc = "prompt" /\ norm_calls = 0 /\ ui_calls = 0 /\ ~InConsole("Report"))

W_C8 ==
    /\ pc = "prompt"
    /\ client_calls = 1 /\ norm_calls = 0
    /\ outcome.kind = "raise"
    /\ clean_data.t = "WeatherData"

(* C9: an iteration with a city line that has ended without a report has
   written an error or diagnostic line besides the progress line. *)
C9_FailureIsLogged ==
    (pc = "prompt" /\ IsCityLine(typed) /\ ~InConsole("Report")) =>
        \E i \in 1..Len(console) : console[i] \in ErrorLines

(* C10: nothing is carried from one call to the next: the Client's key is
   the key it was built with, the request carries this iteration's city and
   that key, the response the call worked on, the status its HTTP-error
   clause read and the value it returned are those of this call's own
   transport outcome. *)
C10_NoCarriedState ==
    /\ (pc \in {"prompt", "fetch", "normalize", "display", "crashed"}
          \/ (pc = "exited" /\ exit_status = 0)) => api_key = YOUR_API_KEY
    /\ client_calls = 1 =>
          /\ request = [q |-> city_input, appid |-> YOUR_API_KEY]
          /\ outcome.kind = "raise" => (response = Unbound /\ status_read = 0 /\ raw_json = None)
          /\ outcome.kind = "response" =>
                /\ response.status_code = outcome.status
                /\ response.body = outcome.body
                /\ status_read \in {0, outcome.status}
                /\ (400 <= outcome.status /\ outcome.status < 600) => status_read = outcome.status
                /\ raw_json \in {None, outcome.body}

W_C10 ==
    /\ client_calls = 1
    /\ status_read = 404
    /\ clean_data.t = "WeatherData"
    /\ pc = "prompt"

====
